---- MODULE Spec2Model ----
(***************************************************************************)
(* A model of cumulusci/core/tasks.py: the task lifecycle (BaseTask and    *)
(* BaseSalesforceTask, __call__ and stacked_task), option resolution and   *)
(* validation at construction, the retry loop (_retry) and the poll loop   *)
(* (_poll).                                                                *)
(*                                                                         *)
(* Python's None is the string "None"; an exception in flight is the name  *)
(* of its class, "None" when there is none.                                *)
(***************************************************************************)
EXTENDS Integers, Sequences, FiniteSets, TLC

\* ------------------------------------------------------------------ bounds

\* Nesting depth of __call__ on one thread (a body that invokes a task).
MaxDepth == 2

\* Invocations started in one behaviour, nested ones included.
MaxCalls == 2

\* ------------------------------------------------------------- the universe

None == "None"

\* Threads of the process that invoke tasks.
Threads == {"th1", "th2"}

\* Task instances: a BaseTask subclass, a BaseSalesforceTask subclass with an
\* org config, and one constructed without an org config.
Tasks == {"plain", "sf", "sf_noorg"}

\* Directories of the file system.
Dirs == {"home", "repo", "tmp"}

\* What project_config.repo_root can yield ("None": no project config or no
\* repository root).
RepoRoots == {None, "repo"}

\* Values a task body returns, and keys it puts in return_values.
BodyResults == {"rc0", "rc1"}
ReturnKeys == {"k"}

\* The errors the lifecycle can see.
Errors == {"TaskRequiresSalesforceOrg", "CredentialsError", "InitError",
           "LogError", "BodyError"}

VARIABLES
    live,           \* the threads that run invocations
    stack,          \* CURRENT_TASK.stack of each thread (tasks.py:23)
    hasStack,       \* hasattr(CURRENT_TASK, "stack") on each thread
    frames,         \* each thread's active __call__ activations, outermost first
    cwd,            \* the process's working directory
    capture,        \* CAPTURE_TASK_OUTPUT (tasks.py:26), read at import
    result,         \* self.result of each task
    return_values,  \* self.return_values of each task (its keys)
    working_path,   \* self.working_path of each task
    ncalls,         \* history: the invocations started so far
    \* --- one task instance: its construction, _retry and _poll
    project_config, \* the attributes of the project configuration
    task_options,   \* the class's option schema, in declaration order
    cfg_options,    \* task_config.options
    kwargs,         \* the keyword overrides given to __init__
    options,        \* self.options
    ctor_pc,        \* "new", then "ok" (constructed) or "error" (__init__ raised)
    ctor_error,     \* the option names the TaskOptionsError lists
    peer,           \* a second instance built from the same task config
    retry_pc,       \* where _retry is
    opt0,           \* history: self.options when _retry was called
    rlog,           \* history: what _retry did, in order
    poll_complete,
    poll_count,
    poll_interval_level,
    poll_interval_s,
    poll_pc,        \* where _poll is
    poll_run,       \* history: the _poll calls made so far
    plog,           \* history: what _poll did, in order
    task_config,    \* self.task_config: name, ui_options, checks, class_path
    name,           \* self.name
    frozen          \* history: the freeze calls: their step and return value

callVars == <<live, stack, hasStack, frames, cwd, capture, result,
              return_values, working_path, ncalls>>

ctorVars == <<project_config, task_options, cfg_options, kwargs, options,
              ctor_pc, ctor_error, peer>>

retryVars == <<retry_pc, opt0, rlog>>

pollVars == <<poll_complete, poll_count, poll_interval_level, poll_interval_s,
              poll_pc, poll_run, plog>>

freezeVars == <<task_config, name, frozen>>

vars == <<callVars, ctorVars, retryVars, pollVars, freezeVars>>

\* ------------------------------------------------------------ task variants

\* BaseTask.salesforce_task (False) and BaseSalesforceTask.salesforce_task (True).
salesforce_task(t) == t \in {"sf", "sf_noorg"}

\* self.org_config, as given to __init__: truthy or not.
org_config(t) == t = "sf"

\* ---------------------------------------------------------------- helpers

Top(s) == s[Len(s)]
Front(s) == SubSeq(s, 1, Len(s) - 1)

Depth(th) == IF hasStack[th] THEN Len(stack[th]) ELSE 0

Active(th) == frames[th] # <<>>
Cur(th) == Top(frames[th])

\* The activation record of one __call__: where it is (pc), the exception in
\* flight (exc), what cd() saved, and history fields (trace: the steps taken;
\* inner: how the last invocation made by the body ended; raised: the error
\* as it was raised; moved: the body changed the working directory; put: the
\* keys the body put in return_values; val: what the body returned; the values
\* at entry).
NewFrame(th, t) ==
    [task |-> t, pc |-> "check", exc |-> None, path |-> None, saved |-> None,
     scoped |-> FALSE, ret |-> {}, inner |-> None, trace |-> <<>>,
     raised |-> None, moved |-> FALSE, put |-> {}, val |-> None,
     stack0 |-> stack[th], cwd0 |-> cwd,
     result0 |-> result[t], rv0 |-> return_values[t]]

\* The top frame of th becomes f.
SetCur(th, f) ==
    frames' = [frames EXCEPT ![th] = [@ EXCEPT ![Len(@)] = f]]

\* The top frame of th takes step `step` and goes to pc.
Step(th, step, pc) ==
    SetCur(th, [Cur(th) EXCEPT !.pc = pc, !.trace = Append(@, step)])

\* The top frame of th takes step `step`, which raises e; control goes to pc.
Raise(th, step, e, pc) ==
    SetCur(th, [Cur(th) EXCEPT !.pc = pc, !.exc = e, !.raised = e,
                               !.trace = Append(@, step)])

At(th, pc) == Active(th) /\ Cur(th).pc = pc

\* ------------------------------------------------------------------- Init

InitCall ==
    /\ stack = [th \in Threads |-> <<>>]
    /\ hasStack = [th \in Threads |-> FALSE]
    /\ frames = [th \in Threads |-> <<>>]
    /\ cwd = "home"
    /\ capture \in BOOLEAN
    /\ result = [t \in Tasks |-> None]
    /\ return_values = [t \in Tasks |-> {}]
    /\ working_path = [t \in Tasks |-> None]
    /\ ncalls = 0

\* ---------------------------------------------------------- BaseTask.__call__

\* A mutant of Call: an invocation starts by emptying return_values.
MutCallResets(th, t) ==
    /\ Len(frames[th]) < MaxDepth
    /\ Active(th) => Cur(th).pc = "body"
    /\ ncalls < MaxCalls
    /\ ncalls' = ncalls + 1
    /\ frames' = [frames EXCEPT ![th] = Append(@, NewFrame(th, t))]
    /\ return_values' = [return_values EXCEPT ![t] = {}]
    /\ UNCHANGED <<live, stack, hasStack, cwd, capture, result, working_path>>
    /\ UNCHANGED <<ctorVars, retryVars, pollVars, freezeVars>>

\* A caller on thread th invokes task t: the flow (no active invocation on the
\* thread) or the body of the task running on th.
Call(th, t) ==
    /\ Len(frames[th]) < MaxDepth
    /\ Active(th) => Cur(th).pc = "body"
    /\ ncalls < MaxCalls
    /\ ncalls' = ncalls + 1
    /\ frames' = [frames EXCEPT ![th] = Append(@, NewFrame(th, t))]
    /\ UNCHANGED <<live, stack, hasStack, cwd, capture, result, return_values,
                   working_path>>
    /\ UNCHANGED <<ctorVars, retryVars, pollVars, freezeVars>>

\* A mutant of CheckOrg: the precondition with its `not` dropped.
MutCheckOrgInverted(th) ==
    /\ At(th, "check")
    /\ IF salesforce_task(Cur(th).task) /\ org_config(Cur(th).task)
       THEN Raise(th, "check", "TaskRequiresSalesforceOrg", "exit")
       ELSE Step(th, "check", "creds")
    /\ UNCHANGED <<live, stack, hasStack, cwd, capture, result, return_values,
                   working_path, ncalls>>
    /\ UNCHANGED <<ctorVars, retryVars, pollVars, freezeVars>>

\* A mutant of CheckOrg: __call__ without its call of _update_credentials, the
\* precondition being followed at once by _init_task.
MutCheckOrgSkipsCredentials(th) ==
    /\ At(th, "check")
    /\ IF salesforce_task(Cur(th).task) /\ ~org_config(Cur(th).task)
       THEN Raise(th, "check", "TaskRequiresSalesforceOrg", "exit")
       ELSE Step(th, "check", "init")
    /\ UNCHANGED <<live, stack, hasStack, cwd, capture, result, return_values,
                   working_path, ncalls>>
    /\ UNCHANGED <<ctorVars, retryVars, pollVars, freezeVars>>

\* tasks.py:147-152: the precondition.
CheckOrg(th) ==
    /\ At(th, "check")
    /\ IF salesforce_task(Cur(th).task) /\ ~org_config(Cur(th).task)
       THEN Raise(th, "check", "TaskRequiresSalesforceOrg", "exit")
       ELSE Step(th, "check", "creds")
    /\ UNCHANGED <<live, stack, hasStack, cwd, capture, result, return_values,
                   working_path, ncalls>>
    /\ UNCHANGED <<ctorVars, retryVars, pollVars, freezeVars>>

\* A mutant of UpdateCredentials: a failed refresh is recorded and the
\* invocation goes on to _init_task.
MutUpdateCredentialsGoesOn(th) ==
    /\ At(th, "creds")
    /\ \/ Step(th, "creds", "init")
       \/ /\ salesforce_task(Cur(th).task)
          /\ Raise(th, "creds", "CredentialsError", "init")
    /\ UNCHANGED <<live, stack, hasStack, cwd, capture, result, return_values,
                   working_path, ncalls>>
    /\ UNCHANGED <<ctorVars, retryVars, pollVars, freezeVars>>

\* tasks.py:153: self._update_credentials(). BaseTask's is a no-op;
\* BaseSalesforceTask's refreshes the token, which can fail.
UpdateCredentials(th) ==
    /\ At(th, "creds")
    /\ \/ Step(th, "creds", "init")
       \/ /\ salesforce_task(Cur(th).task)
          /\ Raise(th, "creds", "CredentialsError", "exit")
    /\ UNCHANGED <<live, stack, hasStack, cwd, capture, result, return_values,
                   working_path, ncalls>>
    /\ UNCHANGED <<ctorVars, retryVars, pollVars, freezeVars>>

\* tasks.py:154: self._init_task(), a hook the task variant overrides.
InitTask(th) ==
    /\ At(th, "init")
    /\ \/ Step(th, "init", "push")
       \/ Raise(th, "init", "InitError", "exit")
    /\ UNCHANGED <<live, stack, hasStack, cwd, capture, result, return_values,
                   working_path, ncalls>>
    /\ UNCHANGED <<ctorVars, retryVars, pollVars, freezeVars>>

\* A mutant of Push: the task is inserted at the bottom of the stack.
MutPushBottom(th) ==
    /\ At(th, "push")
    /\ hasStack' = [hasStack EXCEPT ![th] = TRUE]
    /\ stack' = [stack EXCEPT ![th] = <<Cur(th).task>> \o @]
    /\ Step(th, "push", "getcwd")
    /\ UNCHANGED <<live, cwd, capture, result, return_values, working_path, ncalls>>
    /\ UNCHANGED <<ctorVars, retryVars, pollVars, freezeVars>>

\* A mutant of Push: CURRENT_TASK as a plain module-level object, one stack
\* that every thread sees.
MutPushShared(th) ==
    /\ At(th, "push")
    /\ hasStack' = [t \in Threads |-> TRUE]
    /\ stack' = [t \in Threads |-> Append(stack[t], Cur(th).task)]
    /\ Step(th, "push", "getcwd")
    /\ UNCHANGED <<live, cwd, capture, result, return_values, working_path, ncalls>>
    /\ UNCHANGED <<ctorVars, retryVars, pollVars, freezeVars>>

\* tasks.py:38-40: entering stacked_task(self).
Push(th) ==
    /\ At(th, "push")
    /\ hasStack' = [hasStack EXCEPT ![th] = TRUE]
    /\ stack' = [stack EXCEPT ![th] = Append(@, Cur(th).task)]
    /\ Step(th, "push", "getcwd")
    /\ UNCHANGED <<live, cwd, capture, result, return_values, working_path, ncalls>>
    /\ UNCHANGED <<ctorVars, retryVars, pollVars, freezeVars>>

\* tasks.py:157-158: working_path and the path to scope to.
RecordWorkingPath(th) ==
    /\ At(th, "getcwd")
    /\ working_path' = [working_path EXCEPT ![Cur(th).task] = cwd]
    /\ \E p \in RepoRoots :
          SetCur(th, [Cur(th) EXCEPT !.pc = "cd", !.path = p,
                                     !.trace = Append(@, "getcwd")])
    /\ UNCHANGED <<live, stack, hasStack, cwd, capture, result, return_values, ncalls>>
    /\ UNCHANGED <<ctorVars, retryVars, pollVars, freezeVars>>

\* tasks.py:159: entering cd(path) (cumulusci.utils.cd): remember the caller's
\* working directory and, with a path, change to it.
EnterCd(th) ==
    /\ At(th, "cd")
    /\ SetCur(th, [Cur(th) EXCEPT !.pc = "capture", !.saved = cwd,
                                  !.trace = Append(@, "cd")])
    /\ cwd' = IF Cur(th).path = None THEN cwd ELSE Cur(th).path
    /\ UNCHANGED <<live, stack, hasStack, capture, result, return_values,
                   working_path, ncalls>>
    /\ UNCHANGED <<ctorVars, retryVars, pollVars, freezeVars>>

\* tasks.py:160-164: redirect_output_to_logger when CAPTURE_TASK_OUTPUT, else
\* nullcontext.
EnterCapture(th) ==
    /\ At(th, "capture")
    /\ SetCur(th, [Cur(th) EXCEPT !.pc = "banner", !.scoped = capture,
                                  !.trace = Append(@, "capture")])
    /\ UNCHANGED <<live, stack, hasStack, cwd, capture, result, return_values,
                   working_path, ncalls>>
    /\ UNCHANGED <<ctorVars, retryVars, pollVars, freezeVars>>

\* tasks.py:165: self._log_begin(); logging can fail.
LogBegin(th) ==
    /\ At(th, "banner")
    /\ \/ Step(th, "banner", "run")
       \/ Raise(th, "banner", "LogError", "uncapture")
    /\ UNCHANGED <<live, stack, hasStack, cwd, capture, result, return_values,
                   working_path, ncalls>>
    /\ UNCHANGED <<ctorVars, retryVars, pollVars, freezeVars>>

\* tasks.py:166: self._run_task() is entered.
RunTask(th) ==
    /\ At(th, "run")
    /\ Step(th, "body", "body")
    /\ UNCHANGED <<live, stack, hasStack, cwd, capture, result, return_values,
                   working_path, ncalls>>
    /\ UNCHANGED <<ctorVars, retryVars, pollVars, freezeVars>>

\* The body changes the working directory.
BodyChdir(th, d) ==
    /\ At(th, "body")
    /\ cwd # d
    /\ cwd' = d
    /\ SetCur(th, [Cur(th) EXCEPT !.moved = TRUE])
    /\ UNCHANGED <<live, stack, hasStack, capture, result, return_values,
                   working_path, ncalls>>
    /\ UNCHANGED <<ctorVars, retryVars, pollVars, freezeVars>>

\* The body puts a return value.
BodyPut(th, k) ==
    /\ At(th, "body")
    /\ k \notin return_values[Cur(th).task]
    /\ return_values' = [return_values EXCEPT ![Cur(th).task] = @ \cup {k}]
    /\ SetCur(th, [Cur(th) EXCEPT !.put = @ \cup {k}])
    /\ UNCHANGED <<live, stack, hasStack, cwd, capture, result, working_path,
                   ncalls>>
    /\ UNCHANGED <<ctorVars, retryVars, pollVars, freezeVars>>

\* The body raises (BaseTask._run_task itself raises NotImplementedError,
\* tasks.py:169-171).
BodyRaise(th) ==
    /\ At(th, "body")
    /\ SetCur(th, [Cur(th) EXCEPT !.pc = "uncapture", !.exc = "BodyError",
                                  !.raised = "BodyError"])
    /\ UNCHANGED <<live, stack, hasStack, cwd, capture, result, return_values,
                   working_path, ncalls>>
    /\ UNCHANGED <<ctorVars, retryVars, pollVars, freezeVars>>

\* A mutant of StoreResult: the result is stored only while it is None.
MutStoreResultOnce(th, v) ==
    /\ At(th, "body")
    /\ result' = [result EXCEPT ![Cur(th).task] = IF @ = None THEN v ELSE @]
    /\ SetCur(th, [Cur(th) EXCEPT !.pc = "return", !.val = v,
                                  !.trace = Append(@, "store")])
    /\ UNCHANGED <<live, stack, hasStack, cwd, capture, return_values,
                   working_path, ncalls>>
    /\ UNCHANGED <<ctorVars, retryVars, pollVars, freezeVars>>

\* tasks.py:166: the body returns v, which is stored as self.result.
StoreResult(th, v) ==
    /\ At(th, "body")
    /\ result' = [result EXCEPT ![Cur(th).task] = v]
    /\ SetCur(th, [Cur(th) EXCEPT !.pc = "return", !.val = v,
                                  !.trace = Append(@, "store")])
    /\ UNCHANGED <<live, stack, hasStack, cwd, capture, return_values,
                   working_path, ncalls>>
    /\ UNCHANGED <<ctorVars, retryVars, pollVars, freezeVars>>

\* A mutant of Return: __call__ returns a new, empty mapping.
MutReturnEmpty(th) ==
    /\ At(th, "return")
    /\ SetCur(th, [Cur(th) EXCEPT !.pc = "uncapture", !.ret = {},
                                  !.trace = Append(@, "return")])
    /\ UNCHANGED <<live, stack, hasStack, cwd, capture, result, return_values,
                   working_path, ncalls>>
    /\ UNCHANGED <<ctorVars, retryVars, pollVars, freezeVars>>

\* tasks.py:167: return self.return_values.
Return(th) ==
    /\ At(th, "return")
    /\ SetCur(th, [Cur(th) EXCEPT !.pc = "uncapture",
                                  !.ret = return_values[Cur(th).task],
                                  !.trace = Append(@, "return")])
    /\ UNCHANGED <<live, stack, hasStack, cwd, capture, result, return_values,
                   working_path, ncalls>>
    /\ UNCHANGED <<ctorVars, retryVars, pollVars, freezeVars>>

\* A mutant of ExitCapture: the task is popped from the stack as the capture
\* scope is left, before the directory is restored.
MutExitCapturePops(th) ==
    /\ At(th, "uncapture")
    /\ stack' = [stack EXCEPT ![th] = Front(@)]
    /\ SetCur(th, [Cur(th) EXCEPT !.pc = "restore", !.scoped = FALSE,
                                  !.trace = Append(@, "uncapture")])
    /\ UNCHANGED <<live, hasStack, cwd, capture, result, return_values,
                   working_path, ncalls>>
    /\ UNCHANGED <<ctorVars, retryVars, pollVars, freezeVars>>

\* tasks.py:160-164: leaving the output capture (or the nullcontext).
ExitCapture(th) ==
    /\ At(th, "uncapture")
    /\ SetCur(th, [Cur(th) EXCEPT !.pc = "restore", !.scoped = FALSE,
                                  !.trace = Append(@, "uncapture")])
    /\ UNCHANGED <<live, stack, hasStack, cwd, capture, result, return_values,
                   working_path, ncalls>>
    /\ UNCHANGED <<ctorVars, retryVars, pollVars, freezeVars>>

\* A mutant of ExitCd: the directory is restored only when cd() was given a
\* path.
MutExitCdOnlyWithPath(th) ==
    /\ At(th, "restore")
    /\ cwd' = IF Cur(th).path = None THEN cwd ELSE Cur(th).saved
    /\ Step(th, "restore", "pop")
    /\ UNCHANGED <<live, stack, hasStack, capture, result, return_values,
                   working_path, ncalls>>
    /\ UNCHANGED <<ctorVars, retryVars, pollVars, freezeVars>>

\* tasks.py:159: leaving cd(path): back to the remembered directory,
\* unconditionally.
ExitCd(th) ==
    /\ At(th, "restore")
    /\ cwd' = Cur(th).saved
    /\ Step(th, "restore", "pop")
    /\ UNCHANGED <<live, stack, hasStack, capture, result, return_values,
                   working_path, ncalls>>
    /\ UNCHANGED <<ctorVars, retryVars, pollVars, freezeVars>>

\* A mutant of Pop: stacked_task without try/finally, so that the pop is
\* skipped when an exception passes through.
MutPopUnlessRaising(th) ==
    /\ At(th, "pop")
    /\ stack' = [stack EXCEPT ![th] = IF Cur(th).exc = None THEN Front(@) ELSE @]
    /\ Step(th, "pop", "exit")
    /\ UNCHANGED <<live, hasStack, cwd, capture, result, return_values,
                   working_path, ncalls>>
    /\ UNCHANGED <<ctorVars, retryVars, pollVars, freezeVars>>

\* A mutant of Pop: a stacked_task whose exit swallows the exception passing
\* through it.
MutPopSuppresses(th) ==
    /\ At(th, "pop")
    /\ stack' = [stack EXCEPT ![th] = Front(@)]
    /\ SetCur(th, [Cur(th) EXCEPT !.pc = "exit", !.exc = None,
                                  !.trace = Append(@, "pop")])
    /\ UNCHANGED <<live, hasStack, cwd, capture, result, return_values,
                   working_path, ncalls>>
    /\ UNCHANGED <<ctorVars, retryVars, pollVars, freezeVars>>

\* tasks.py:43-44: the finally of stacked_task.
Pop(th) ==
    /\ At(th, "pop")
    /\ stack' = [stack EXCEPT ![th] = Front(@)]
    /\ Step(th, "pop", "exit")
    /\ UNCHANGED <<live, hasStack, cwd, capture, result, return_values,
                   working_path, ncalls>>
    /\ UNCHANGED <<ctorVars, retryVars, pollVars, freezeVars>>

\* __call__ is left: control is back at the caller, with the return value or
\* the exception. A calling body that gets an exception either handles it
\* (caught) or lets it propagate through its own scopes.
Exit(th, caught) ==
    /\ At(th, "exit")
    /\ LET f == Cur(th)
           rest == Front(frames[th])
           how == IF f.exc = None THEN "returned" ELSE f.exc
       IN  IF rest = <<>>
           THEN frames' = [frames EXCEPT ![th] = rest]
           ELSE IF f.exc = None \/ caught
           THEN frames' = [frames EXCEPT ![th] =
                    [rest EXCEPT ![Len(rest)] = [@ EXCEPT !.inner = how]]]
           ELSE frames' = [frames EXCEPT ![th] =
                    [rest EXCEPT ![Len(rest)] =
                        [@ EXCEPT !.pc = "uncapture", !.exc = f.exc,
                                  !.raised = f.exc, !.inner = how]]]
    /\ UNCHANGED <<live, stack, hasStack, cwd, capture, result, return_values,
                   working_path, ncalls>>
    /\ UNCHANGED <<ctorVars, retryVars, pollVars, freezeVars>>

NextCall ==
    \/ \E th \in live, t \in Tasks : Call(th, t)
    \/ \E th \in live : CheckOrg(th)
    \/ \E th \in live : UpdateCredentials(th)
    \/ \E th \in live : InitTask(th)
    \/ \E th \in live : Push(th)
    \/ \E th \in live : RecordWorkingPath(th)
    \/ \E th \in live : EnterCd(th)
    \/ \E th \in live : EnterCapture(th)
    \/ \E th \in live : LogBegin(th)
    \/ \E th \in live : RunTask(th)
    \/ \E th \in live, d \in Dirs : BodyChdir(th, d)
    \/ \E th \in live, k \in ReturnKeys : BodyPut(th, k)
    \/ \E th \in live : BodyRaise(th)
    \/ \E th \in live, v \in BodyResults : StoreResult(th, v)
    \/ \E th \in live : Return(th)
    \/ \E th \in live : ExitCapture(th)
    \/ \E th \in live : ExitCd(th)
    \/ \E th \in live : Pop(th)
    \/ \E th \in live, caught \in BOOLEAN : Exit(th, caught)

\* ------------------------------------------------------------ option values

\* An option value or a project attribute: an integer, or a string made of
\* tokens: literal text ("lit"), an occurrence of $project_config.<attr>
\* ("ref", s the attribute's name) and a number's decimal text ("num").
IntV(n) == [kind |-> "int", n |-> n, toks |-> <<>>]
StrV(toks) == [kind |-> "str", n |-> 0, toks |-> toks]
Lit(s) == [t |-> "lit", s |-> s, n |-> 0]
Ref(attr) == [t |-> "ref", s |-> attr, n |-> 0]
Num(n) == [t |-> "num", s |-> "", n |-> n]

\* Python's truth value of an option value.
Truthy(v) == IF v.kind = "int" THEN v.n # 0 ELSE v.toks # <<>>

\* A mutant of StrOf: a missing attribute yields the empty string.
MutStrOfMissingEmpty(pc, attr) ==
    IF attr \notin DOMAIN pc THEN <<>>
    ELSE IF pc[attr].kind = "int" THEN <<Num(pc[attr].n)>>
    ELSE pc[attr].toks

\* str(x) for what getattr(self.project_config, attr, None) yields.
StrOf(pc, attr) ==
    IF attr \notin DOMAIN pc THEN <<Lit("None")>>
    ELSE IF pc[attr].kind = "int" THEN <<Num(pc[attr].n)>>
    ELSE pc[attr].toks

RECURSIVE SubTokens(_, _)
\* tasks.py:118-123: PROJECT_CONFIG_RE.sub over one string, left to right; the
\* replacement text is not scanned again.
SubTokens(pc, toks) ==
    IF toks = <<>> THEN <<>>
    ELSE (IF Head(toks).t = "ref"
          THEN StrOf(pc, Head(toks).s)
          ELSE <<Head(toks)>>) \o SubTokens(pc, Tail(toks))

\* A mutant of Templated: the substituted text is scanned a second time.
MutTemplatedRescans(pc, v) ==
    IF v.kind = "str" THEN StrV(SubTokens(pc, SubTokens(pc, v.toks))) ELSE v

\* tasks.py:117-124: one option's value after templating.
Templated(pc, v) ==
    IF v.kind = "str" THEN StrV(SubTokens(pc, v.toks)) ELSE v

\* ----------------------------------------------------- BaseTask.__init__

\* The option names a schema or a mapping can use.
OptNames == {"x", "y", "z"}

\* Schema length.
MaxSchema == 2

\* A descriptor's "required" entry: True, False or absent (config.get yields
\* None).
RequiredValues == {"True", "False", "None"}

\* The project configuration's attributes.
ProjectAttrs ==
    [repo_name |-> StrV(<<Lit("CumulusCI")>>),
     api |-> IntV(50),
     tmpl |-> StrV(<<Ref("repo_name"), Lit("!")>>)]

CfgValues ==
    {IntV(7),
     StrV(<<Lit("rel/"), Ref("repo_name"), Ref("nope")>>),
     StrV(<<Ref("tmpl"), Ref("tmpl")>>)}
KwValues == {StrV(<<Ref("api")>>)}

Mappings(V) == UNION {[S -> V] : S \in SUBSET OptNames}

Distinct(q) == \A i, j \in 1..Len(q) : i # j => q[i].name # q[j].name

Schemas ==
    {q \in UNION {[1..n -> [name : OptNames, required : RequiredValues]] :
                    n \in 0..MaxSchema} : Distinct(q)}

\* dict.update: m with the entries of u.
Update(m, u) ==
    [k \in DOMAIN m \cup DOMAIN u |-> IF k \in DOMAIN u THEN u[k] ELSE m[k]]

NoOptions == [k \in {} |-> IntV(0)]

\* task_config.options: None, or a mapping.
CfgNone == [is_none |-> TRUE, map |-> NoOptions]
Cfg(m) == [is_none |-> FALSE, map |-> m]

\* tasks.py:105-124: _init_options.
InitOptions(pc, cfg, kw) ==
    LET copied == IF cfg.is_none THEN NoOptions ELSE cfg.map
        merged == IF DOMAIN kw # {} THEN Update(copied, kw) ELSE copied
    IN  [k \in DOMAIN merged |-> Templated(pc, merged[k])]

RECURSIVE MutMissingFirstOnly(_, _)
\* A mutant of MissingRequired: the scan stops at the first missing option.
MutMissingFirstOnly(schema, opts) ==
    IF schema = <<>> THEN <<>>
    ELSE IF Head(schema).required = "True" /\ Head(schema).name \notin DOMAIN opts
         THEN <<Head(schema).name>>
         ELSE MutMissingFirstOnly(Tail(schema), opts)

RECURSIVE MissingRequired(_, _)
\* tasks.py:127-130: the loop of _validate_options over the schema.
MissingRequired(schema, opts) ==
    IF schema = <<>> THEN <<>>
    ELSE (IF Head(schema).required = "True" /\ Head(schema).name \notin DOMAIN opts
          THEN <<Head(schema).name>>
          ELSE <<>>) \o MissingRequired(Tail(schema), opts)

\* The second instance: not built yet, or its self.options.
NoPeer == [built |-> FALSE, options |-> NoOptions]
Peer(m) == [built |-> TRUE, options |-> m]

\* A task instance outside construction studies: constructed, no options.
InitCtor ==
    /\ project_config = ProjectAttrs
    /\ task_options = <<>>
    /\ cfg_options = CfgNone
    /\ kwargs = NoOptions
    /\ options = NoOptions
    /\ ctor_pc = "ok"
    /\ ctor_error = <<>>
    /\ peer = NoPeer

\* Before __init__: any schema, task config options and keyword overrides.
InitNew ==
    /\ project_config = ProjectAttrs
    /\ task_options \in Schemas
    /\ cfg_options \in {CfgNone} \cup {Cfg(m) : m \in Mappings(CfgValues)}
    /\ kwargs \in Mappings(KwValues)
    /\ options = NoOptions
    /\ ctor_pc = "new"
    /\ ctor_error = <<>>
    /\ peer = NoPeer

\* tasks.py:209-213: _reset_poll as a step, called by __init__ (tasks.py:73)
\* before the options are resolved.
ResetPoll ==
    /\ poll_complete' = FALSE
    /\ poll_count' = 0
    /\ poll_interval_level' = 0
    /\ poll_interval_s' = 1

\* A mutant of Construct: self.options = self.task_config.options without
\* .copy(), so that the merge and the templating write into the task config.
MutConstructShares ==
    /\ ctor_pc = "new"
    /\ LET resolved == InitOptions(project_config, cfg_options, kwargs)
           missing_required == MissingRequired(task_options, resolved)
       IN  /\ options' = resolved
           /\ cfg_options' = IF cfg_options.is_none THEN cfg_options
                                                    ELSE Cfg(resolved)
           /\ ctor_error' = missing_required
           /\ ctor_pc' = IF missing_required # <<>> THEN "error" ELSE "ok"
    /\ UNCHANGED <<project_config, task_options, kwargs, peer>>
    /\ ResetPoll
    /\ UNCHANGED <<poll_pc, poll_run, plog>>
    /\ UNCHANGED <<callVars, freezeVars, retryVars>>

\* tasks.py:73, 95-96 and 126-136: __init__ resets the poll state, resolves
\* the options and validates them; with a required option missing it raises
\* TaskOptionsError.
Construct ==
    /\ ctor_pc = "new"
    /\ LET resolved == InitOptions(project_config, cfg_options, kwargs)
           missing_required == MissingRequired(task_options, resolved)
       IN  /\ options' = resolved
           /\ ctor_error' = missing_required
           /\ ctor_pc' = IF missing_required # <<>> THEN "error" ELSE "ok"
    /\ UNCHANGED <<project_config, task_options, cfg_options, kwargs, peer>>
    /\ ResetPoll
    /\ UNCHANGED <<poll_pc, poll_run, plog>>
    /\ UNCHANGED <<callVars, freezeVars, retryVars>>

\* tasks.py:105-124: a second task instance is built from the same task
\* config, without keyword overrides.
ConstructPeer ==
    /\ ~peer.built
    /\ peer' = Peer(InitOptions(project_config, cfg_options, NoOptions))
    /\ UNCHANGED <<project_config, task_options, cfg_options, kwargs, options,
                   ctor_pc, ctor_error>>
    /\ UNCHANGED <<callVars, freezeVars, retryVars, pollVars>>

\* The project configuration changes: repo_name gets another value.
ChangeProjectConfig ==
    /\ project_config["repo_name"] # StrV(<<Lit("Renamed")>>)
    /\ project_config' =
          [project_config EXCEPT !["repo_name"] = StrV(<<Lit("Renamed")>>)]
    /\ UNCHANGED <<task_options, cfg_options, kwargs, options, ctor_pc,
                   ctor_error, peer>>
    /\ UNCHANGED <<callVars, freezeVars, retryVars, pollVars>>

\* ----------------------------------------------------------- BaseTask._retry

\* The largest retries, retry_interval and retry_interval_add a run starts with.
MaxRetries == 3
MaxInterval == 2
MaxAdd == 2

\* One entry of the history of _retry or _poll: what happened (ev) and up to
\* two numbers.
Event(ev, n, m) == [ev |-> ev, n |-> n, m |-> m]

RetryOptions(r, i, a) ==
    [k \in {"retries", "retry_interval", "retry_interval_add"} |->
        IF k = "retries" THEN IntV(r)
        ELSE IF k = "retry_interval" THEN IntV(i) ELSE IntV(a)]

SetOption(opts, k, n) == [opts EXCEPT ![k] = IntV(n)]

\* The step records freeze has returned, after self.options was changed in
\* place to opts: the "options" entry of their nested dict is that same object
\* (tasks.py:250).
Shared(fz, opts) ==
    [i \in 1..Len(fz) |->
        [step |-> fz[i].step,
         ret |-> [j \in 1..Len(fz[i].ret) |->
                    LET r == fz[i].ret[j]
                    IN  [k \in DOMAIN r |->
                            IF k = "task_config" /\ r[k].kind = "dict"
                            THEN [r[k] EXCEPT !.opts = opts]
                            ELSE r[k]]]]]

\* A task instance that is not retrying.
InitRetryIdle ==
    /\ retry_pc = "idle"
    /\ opt0 = NoOptions
    /\ rlog = <<>>

\* A constructed task whose options carry the three retry settings, each a
\* natural number (a count of attempts, and seconds).
InitRetry ==
    /\ project_config = ProjectAttrs
    /\ task_options = <<>>
    /\ cfg_options = CfgNone
    /\ kwargs = NoOptions
    /\ \E r \in 0..MaxRetries, i \in 0..MaxInterval, a \in 0..MaxAdd :
          options = RetryOptions(r, i, a)
    /\ ctor_pc = "ok"
    /\ ctor_error = <<>>
    /\ peer = NoPeer
    /\ InitRetryIdle

\* The body calls self._retry().
RetryCall ==
    /\ ctor_pc = "ok"
    /\ retry_pc = "idle"
    /\ retry_pc' = "try"
    /\ opt0' = options
    /\ UNCHANGED <<rlog, ctorVars, callVars, freezeVars, pollVars>>

\* tasks.py:183-185: self._try() returns (ok) or raises; the history keeps the
\* retries and retry_interval the failed attempt found.
Try(ok) ==
    /\ retry_pc = "try"
    /\ IF ok
       THEN /\ retry_pc' = "returned"
            /\ rlog' = Append(rlog, Event("try_ok", 0, 0))
       ELSE /\ retry_pc' = "except"
            /\ rlog' = Append(rlog, Event("try_fail", options["retries"].n,
                                          options["retry_interval"].n))
    /\ UNCHANGED <<opt0, ctorVars, callVars, freezeVars, pollVars>>

\* A mutant of RetryExcept: the last remaining attempt is not used.
MutRetryExceptOffByOne(valid) ==
    /\ retry_pc = "except"
    /\ IF options["retries"].n <= 1
       THEN /\ retry_pc' = "raised"
            /\ rlog' = rlog
       ELSE /\ rlog' = Append(rlog, Event("is_retry_valid", IF valid THEN 1 ELSE 0, 0))
            /\ retry_pc' = IF valid THEN "backoff" ELSE "raised"
    /\ UNCHANGED <<opt0, ctorVars, callVars, freezeVars, pollVars>>

\* A mutant of RetryExcept: the predicate is asked and its answer ignored.
MutRetryExceptIgnoresPredicate(valid) ==
    /\ retry_pc = "except"
    /\ IF ~Truthy(options["retries"])
       THEN /\ retry_pc' = "raised"
            /\ rlog' = rlog
       ELSE /\ rlog' = Append(rlog, Event("is_retry_valid", IF valid THEN 1 ELSE 0, 0))
            /\ retry_pc' = "backoff"
    /\ UNCHANGED <<opt0, ctorVars, callVars, freezeVars, pollVars>>

\* A mutant of RetryExcept: only the predicate decides, retries is not
\* looked at.
MutRetryExceptUnlimited(valid) ==
    /\ retry_pc = "except"
    /\ rlog' = Append(rlog, Event("is_retry_valid", IF valid THEN 1 ELSE 0, 0))
    /\ retry_pc' = IF valid THEN "backoff" ELSE "raised"
    /\ UNCHANGED <<opt0, ctorVars, callVars, freezeVars, pollVars>>

\* tasks.py:186-188: the handler re-raises unless retries is truthy and
\* _is_retry_valid(e) accepts the error; the predicate is only asked when
\* retries is truthy.
RetryExcept(valid) ==
    /\ retry_pc = "except"
    /\ IF ~Truthy(options["retries"])
       THEN /\ retry_pc' = "raised"
            /\ rlog' = rlog
       ELSE /\ rlog' = Append(rlog, Event("is_retry_valid", IF valid THEN 1 ELSE 0, 0))
            /\ retry_pc' = IF valid THEN "backoff" ELSE "raised"
    /\ UNCHANGED <<opt0, ctorVars, callVars, freezeVars, pollVars>>

\* A mutant of RetryBackoff: retry_interval_add is added before the sleep.
MutRetryBackoffAddFirst ==
    /\ retry_pc = "backoff"
    /\ retry_pc' = "decrement"
    /\ IF Truthy(options["retry_interval"])
       THEN LET grown == IF Truthy(options["retry_interval_add"])
                         THEN options["retry_interval"].n
                              + options["retry_interval_add"].n
                         ELSE options["retry_interval"].n
            IN  /\ rlog' = rlog \o <<Event("warning_sleeping", grown, 0),
                                     Event("sleep", grown, 0)>>
                /\ options' = SetOption(options, "retry_interval", grown)
       ELSE UNCHANGED <<rlog, options>>
    /\ frozen' = Shared(frozen, options')
    /\ UNCHANGED <<project_config, task_options, cfg_options, kwargs, ctor_pc,
                   ctor_error, peer, opt0, callVars, task_config, name,
                   pollVars>>

\* tasks.py:189-197: with a truthy retry_interval, warn, sleep that long, then
\* add retry_interval_add when it is truthy.
RetryBackoff ==
    /\ retry_pc = "backoff"
    /\ retry_pc' = "decrement"
    /\ IF Truthy(options["retry_interval"])
       THEN /\ rlog' = rlog \o <<Event("warning_sleeping", options["retry_interval"].n, 0),
                                 Event("sleep", options["retry_interval"].n, 0)>>
            /\ options' =
                 IF Truthy(options["retry_interval_add"])
                 THEN SetOption(options, "retry_interval",
                                options["retry_interval"].n
                                + options["retry_interval_add"].n)
                 ELSE options
       ELSE UNCHANGED <<rlog, options>>
    /\ frozen' = Shared(frozen, options')
    /\ UNCHANGED <<project_config, task_options, cfg_options, kwargs, ctor_pc,
                   ctor_error, peer, opt0, callVars, task_config, name,
                   pollVars>>

\* A mutant of RetryDecrement: the decrement sits inside the
\* `if self.options["retry_interval"]` block.
MutRetryDecrementOnlyAfterSleep ==
    /\ retry_pc = "decrement"
    /\ retry_pc' = "try"
    /\ options' = IF Truthy(options["retry_interval"])
                  THEN SetOption(options, "retries", options["retries"].n - 1)
                  ELSE options
    /\ rlog' = Append(rlog, Event("warning_retrying", options'["retries"].n, 0))
    /\ frozen' = Shared(frozen, options')
    /\ UNCHANGED <<project_config, task_options, cfg_options, kwargs, ctor_pc,
                   ctor_error, peer, opt0, callVars, task_config, name,
                   pollVars>>

\* A mutant of RetryDecrement: the decrement without the warning that follows
\* it.
MutRetryDecrementSilent ==
    /\ retry_pc = "decrement"
    /\ retry_pc' = "try"
    /\ options' = SetOption(options, "retries", options["retries"].n - 1)
    /\ rlog' = rlog
    /\ frozen' = Shared(frozen, options')
    /\ UNCHANGED <<project_config, task_options, cfg_options, kwargs, ctor_pc,
                   ctor_error, peer, opt0, callVars, task_config, name,
                   pollVars>>

\* tasks.py:198-201: one attempt less, a warning, and the loop goes round.
RetryDecrement ==
    /\ retry_pc = "decrement"
    /\ retry_pc' = "try"
    /\ options' = SetOption(options, "retries", options["retries"].n - 1)
    /\ rlog' = Append(rlog, Event("warning_retrying", options["retries"].n - 1, 0))
    /\ frozen' = Shared(frozen, options')
    /\ UNCHANGED <<project_config, task_options, cfg_options, kwargs, ctor_pc,
                   ctor_error, peer, opt0, callVars, task_config, name,
                   pollVars>>

\* ------------------------------------------------------------ BaseTask._poll

\* The largest poll count a behaviour reaches, and the _poll calls it makes.
MaxPolls == 9
MaxPollRuns == 2

\* tasks.py:209-213: _reset_poll, called by __init__ (tasks.py:73).
InitPoll ==
    /\ poll_complete = FALSE
    /\ poll_count = 0
    /\ poll_interval_level = 0
    /\ poll_interval_s = 1
    /\ poll_pc = "idle"
    /\ poll_run = 0
    /\ plog = <<>>

\* A mutant of PollCall: _poll starts by calling _reset_poll.
MutPollCallResets ==
    /\ ctor_pc = "ok"
    /\ poll_pc \in {"idle", "returned"}
    /\ poll_run < MaxPollRuns
    /\ poll_run' = poll_run + 1
    /\ poll_pc' = "count"
    /\ poll_complete' = FALSE
    /\ poll_count' = 0
    /\ poll_interval_level' = 0
    /\ poll_interval_s' = 1
    /\ UNCHANGED <<plog, ctorVars, callVars, freezeVars, retryVars>>

\* The body calls self._poll().
PollCall ==
    /\ ctor_pc = "ok"
    /\ poll_pc \in {"idle", "returned"}
    /\ poll_run < MaxPollRuns
    /\ poll_run' = poll_run + 1
    /\ poll_pc' = "count"
    /\ UNCHANGED <<poll_complete, poll_count, poll_interval_level,
                   poll_interval_s, plog, ctorVars, callVars, freezeVars, retryVars>>

\* tasks.py:218: self.poll_count += 1.
PollCount ==
    /\ poll_pc = "count"
    /\ poll_count < MaxPolls
    /\ poll_count' = poll_count + 1
    /\ poll_pc' = "action"
    /\ UNCHANGED <<poll_complete, poll_interval_level, poll_interval_s,
                   poll_run, plog, ctorVars, callVars, freezeVars, retryVars>>

\* tasks.py:219: self._poll_action(), the task's probe: it leaves the flag
\* alone ("pending"), sets poll_complete ("complete") or raises ("raise").
PollAction(outcome) ==
    /\ poll_pc = "action"
    /\ poll_complete' = IF outcome = "complete" THEN TRUE ELSE poll_complete
    /\ poll_pc' = IF outcome = "raise" THEN "raised" ELSE "test"
    /\ plog' = Append(plog, Event(outcome, poll_count, poll_run))
    /\ UNCHANGED <<poll_count, poll_interval_level, poll_interval_s, poll_run,
                   ctorVars, callVars, freezeVars, retryVars>>

\* A mutant of PollTest: a hidden cap of three polls.
MutPollTestCapped ==
    /\ poll_pc = "test"
    /\ poll_pc' = IF poll_complete \/ poll_count >= 3 THEN "returned" ELSE "sleep"
    /\ UNCHANGED <<poll_complete, poll_count, poll_interval_level,
                   poll_interval_s, poll_run, plog, ctorVars, callVars, freezeVars,
                   retryVars>>

\* tasks.py:220-221: the loop's only exit.
PollTest ==
    /\ poll_pc = "test"
    /\ poll_pc' = IF poll_complete THEN "returned" ELSE "sleep"
    /\ UNCHANGED <<poll_complete, poll_count, poll_interval_level,
                   poll_interval_s, poll_run, plog, ctorVars, callVars, freezeVars,
                   retryVars>>

\* tasks.py:222: time.sleep(self.poll_interval_s).
PollSleep ==
    /\ poll_pc = "sleep"
    /\ poll_pc' = "update"
    /\ plog' = Append(plog, Event("sleep", poll_interval_s, poll_run))
    /\ UNCHANGED <<poll_complete, poll_count, poll_interval_level,
                   poll_interval_s, poll_run, ctorVars, callVars, freezeVars, retryVars>>

\* A mutant of PollUpdateInterval: >= for >.
MutPollUpdateIntervalEager ==
    /\ poll_pc = "update"
    /\ poll_pc' = "count"
    /\ IF poll_count \div 3 >= poll_interval_level
       THEN /\ poll_interval_level' = poll_interval_level + 1
            /\ poll_interval_s' = poll_interval_s + 1
            /\ plog' = Append(plog, Event("info_increased", poll_interval_s + 1,
                                          poll_run))
       ELSE UNCHANGED <<poll_interval_level, poll_interval_s, plog>>
    /\ UNCHANGED <<poll_complete, poll_count, poll_run, ctorVars, callVars, freezeVars,
                   retryVars>>

\* A mutant of PollUpdateInterval: the interval doubles.
MutPollUpdateIntervalDoubles ==
    /\ poll_pc = "update"
    /\ poll_pc' = "count"
    /\ IF poll_count \div 3 > poll_interval_level
       THEN /\ poll_interval_level' = poll_interval_level + 1
            /\ poll_interval_s' = poll_interval_s * 2
            /\ plog' = Append(plog, Event("info_increased", poll_interval_s * 2,
                                          poll_run))
       ELSE UNCHANGED <<poll_interval_level, poll_interval_s, plog>>
    /\ UNCHANGED <<poll_complete, poll_count, poll_run, ctorVars, callVars, freezeVars,
                   retryVars>>

\* tasks.py:232-240: _poll_update_interval.
PollUpdateInterval ==
    /\ poll_pc = "update"
    /\ poll_pc' = "count"
    /\ IF poll_count \div 3 > poll_interval_level
       THEN /\ poll_interval_level' = poll_interval_level + 1
            /\ poll_interval_s' = poll_interval_s + 1
            /\ plog' = Append(plog, Event("info_increased", poll_interval_s + 1,
                                          poll_run))
       ELSE UNCHANGED <<poll_interval_level, poll_interval_s, plog>>
    /\ UNCHANGED <<poll_complete, poll_count, poll_run, ctorVars, callVars, freezeVars,
                   retryVars>>

\* ----------------------------------------------------------- BaseTask.freeze

\* The freeze calls a run makes.
MaxFreezes == 2

\* The values of a frozen step's entries: text, a number, a truth value, None,
\* or the nested dict {"options": ..., "checks": ...}. In the dict, opts is
\* the content of its "options" entry, which is the object self.options itself
\* (tasks.py:250), not a copy.
TextV(s) == [kind |-> "text", s |-> s, n |-> 0, opts |-> NoOptions, checks |-> <<>>]
NumberV(n) == [kind |-> "number", s |-> "", n |-> n, opts |-> NoOptions, checks |-> <<>>]
BoolV(b) ==
    [kind |-> "bool", s |-> "", n |-> IF b THEN 1 ELSE 0, opts |-> NoOptions,
     checks |-> <<>>]
NoneV == [kind |-> "none", s |-> "", n |-> 0, opts |-> NoOptions, checks |-> <<>>]
DictV(o, c) == [kind |-> "dict", s |-> "", n |-> 0, opts |-> o, checks |-> c]

DigitText == <<"0", "1", "2", "3", "4", "5", "6", "7", "8", "9">>

RECURSIVE Decimal(_)
\* The decimal digits of a natural number.
Decimal(n) ==
    IF n < 10 THEN DigitText[n + 1]
    ELSE Decimal(n \div 10) \o DigitText[(n % 10) + 1]

\* str(x) of a number or of text.
TextOf(v) == IF v.kind = "number" THEN TextV(Decimal(v.n)) ELSE v

\* A name (text or None) as a value.
NameValue(s) == IF s = None THEN NoneV ELSE TextV(s)

\* The keys a ui_options block can have, and the value it gives each.
UiKeys ==
    {"name", "kind", "is_required", "path", "step_num", "task_class",
     "task_config", "source", "note"}
UiValue(k) == IF k = "is_required" THEN BoolV(FALSE) ELSE TextV("from ui_options")
NoUi == [k \in {} |-> NoneV]

\* task_config.config.get("ui_options", {}): the block can be absent.
UiAbsent == [absent |-> TRUE, map |-> NoUi]
Ui(S) == [absent |-> FALSE, map |-> [k \in S |-> UiValue(k)]]

\* task_config.checks: None or a list.
ChecksNone == [is_none |-> TRUE, list |-> <<>>]
Checks(q) == [is_none |-> FALSE, list |-> q]

\* The task configurations freeze is studied with (their options are
\* cfg_options), and the step descriptors.
TaskConfigs ==
    [name : {None, "deploy"},
     ui_options : {UiAbsent} \cup {Ui(S) : S \in SUBSET UiKeys},
     checks : {ChecksNone, Checks(<<>>), Checks(<<"check_a">>)},
     class_path : {"cumulusci.tasks.Deploy"}]

StepSpecs ==
    [path : {"force_deploy"},
     step_num : {NumberV(1), NumberV(12), TextV("1.1")},
     frozenspec : {"source spec"}]

FreezeCfgs ==
    {CfgNone,
     Cfg([k \in {"x"} |-> StrV(<<Lit("rel/"), Ref("repo_name"), Ref("nope")>>)]),
     Cfg([k \in {"x", "y"} |-> IF k = "x" THEN IntV(7) ELSE StrV(<<Ref("tmpl"), Ref("tmpl")>>)])}

\* A mutant of UiStep: the ui_options are applied last.
MutUiStepUiLast(step) ==
    LET given == IF task_config.name # None THEN task_config.name ELSE name
        ui_step == [k \in {"name", "kind", "is_required"} |->
                       CASE k = "name" -> NameValue(given)
                         [] k = "kind" -> TextV("other")
                         [] OTHER -> BoolV(TRUE)]
        nested == DictV(options, task_config.checks.list)
        fixed == [k \in {"path", "step_num", "task_class", "task_config", "source"} |->
                     CASE k = "path" -> TextV(step.path)
                       [] k = "step_num" -> TextOf(step.step_num)
                       [] k = "task_class" -> TextV(task_config.class_path)
                       [] k = "task_config" -> nested
                       [] OTHER -> TextV(step.frozenspec)]
    IN  Update(Update(ui_step, fixed), task_config.ui_options.map)

\* tasks.py:243-258: the dict freeze builds: the defaults, then the
\* ui_options, then the five entries of the step and the task.
UiStep(step) ==
    LET given == IF task_config.name # None THEN task_config.name ELSE name
        ui_step == [k \in {"name", "kind", "is_required"} |->
                       CASE k = "name" -> NameValue(given)
                         [] k = "kind" -> TextV("other")
                         [] OTHER -> BoolV(TRUE)]
        nested == DictV(options, task_config.checks.list)
        fixed == [k \in {"path", "step_num", "task_class", "task_config", "source"} |->
                     CASE k = "path" -> TextV(step.path)
                       [] k = "step_num" -> TextOf(step.step_num)
                       [] k = "task_class" -> TextV(task_config.class_path)
                       [] k = "task_config" -> nested
                       [] OTHER -> TextV(step.frozenspec)]
    IN  Update(Update(ui_step, task_config.ui_options.map), fixed)

\* A task instance outside freeze studies.
InitFreezeIdle ==
    /\ task_config = [name |-> None, ui_options |-> UiAbsent,
                      checks |-> ChecksNone,
                      class_path |-> "cumulusci.tasks.Deploy"]
    /\ name = None
    /\ frozen = <<>>

\* A constructed task with any task configuration and name.
InitFreeze ==
    /\ project_config = ProjectAttrs
    /\ task_options = <<>>
    /\ cfg_options \in FreezeCfgs
    /\ kwargs = NoOptions
    /\ options = InitOptions(ProjectAttrs, cfg_options, NoOptions)
    /\ ctor_pc = "ok"
    /\ ctor_error = <<>>
    /\ peer = NoPeer
    /\ task_config \in TaskConfigs
    /\ name \in {None, "task_a"}
    /\ frozen = <<>>

\* tasks.py:242-259: freeze(step) returns the list [ui_step]; the history
\* keeps each call's step and return value.
Freeze(step) ==
    /\ ctor_pc = "ok"
    /\ Len(frozen) < MaxFreezes
    /\ frozen' = Append(frozen, [step |-> step, ret |-> <<UiStep(step)>>])
    /\ UNCHANGED <<task_config, name>>
    /\ UNCHANGED <<callVars, ctorVars, retryVars, pollVars>>

\* ------------------------------------------------------ the specifications

\* Invocations of constructed tasks on one thread.
Init ==
    /\ live = {"th1"}
    /\ InitCall
    /\ InitCtor
    /\ InitRetryIdle
    /\ InitPoll
    /\ InitFreezeIdle

Next == NextCall

Spec == Init /\ [][Next]_vars

\* Invocations of constructed tasks on two threads, interleaved step by step.
InitThreads ==
    /\ live = Threads
    /\ InitCall
    /\ capture = FALSE
    /\ InitCtor
    /\ InitRetryIdle
    /\ InitPoll
    /\ InitFreezeIdle

\* The steps of the invocations; the bodies only invoke, return one value or
\* raise.
NextThreads ==
    \/ \E th \in live, t \in Tasks : Call(th, t)
    \/ \E th \in live : CheckOrg(th)
    \/ \E th \in live : UpdateCredentials(th)
    \/ \E th \in live : InitTask(th)
    \/ \E th \in live : Push(th)
    \/ \E th \in live : RecordWorkingPath(th)
    \/ \E th \in live : EnterCd(th)
    \/ \E th \in live : EnterCapture(th)
    \/ \E th \in live : LogBegin(th)
    \/ \E th \in live : RunTask(th)
    \/ \E th \in live : BodyRaise(th)
    \/ \E th \in live : StoreResult(th, "rc0")
    \/ \E th \in live : Return(th)
    \/ \E th \in live : ExitCapture(th)
    \/ \E th \in live : ExitCd(th)
    \/ \E th \in live : Pop(th)
    \/ \E th \in live, caught \in BOOLEAN : Exit(th, caught)

SpecThreads == InitThreads /\ [][NextThreads]_vars

\* freeze calls of a constructed task.
InitFreezeSpec ==
    /\ live = {"th1"}
    /\ InitCall
    /\ capture = FALSE
    /\ InitFreeze
    /\ InitRetryIdle
    /\ InitPoll

NextFreeze == \E step \in StepSpecs : Freeze(step)

SpecFreeze == InitFreezeSpec /\ [][NextFreeze]_vars

\* Construction: __init__ over every schema, task config and overrides.
InitConstruct ==
    /\ live = {"th1"}
    /\ InitCall
    /\ capture = FALSE
    /\ InitNew
    /\ InitRetryIdle
    /\ InitPoll
    /\ InitFreezeIdle

NextConstruct == Construct

SpecConstruct == InitConstruct /\ [][NextConstruct]_vars

\* One _retry run of a constructed task.
InitRetrySpec ==
    /\ live = {"th1"}
    /\ InitCall
    /\ capture = FALSE
    /\ InitRetry
    /\ InitPoll
    /\ InitFreezeIdle

NextRetry ==
    \/ RetryCall
    \/ \E ok \in BOOLEAN : Try(ok)
    \/ \E valid \in BOOLEAN : RetryExcept(valid)
    \/ RetryBackoff
    \/ RetryDecrement

SpecRetry == InitRetrySpec /\ [][NextRetry]_vars

\* _retry runs in which every step that can be taken is taken in the end:
\* _try returns or raises, the predicate answers and time.sleep comes back.
SpecRetryFair == InitRetrySpec /\ [][NextRetry]_vars /\ WF_vars(NextRetry)

\* _poll runs of a constructed task.
InitPollSpec ==
    /\ live = {"th1"}
    /\ InitCall
    /\ capture = FALSE
    /\ InitCtor
    /\ InitRetryIdle
    /\ InitPoll
    /\ InitFreezeIdle

NextPoll ==
    \/ PollCall
    \/ PollCount
    \/ \E outcome \in {"pending", "complete", "raise"} : PollAction(outcome)
    \/ PollTest
    \/ PollSleep
    \/ PollUpdateInterval

SpecPoll == InitPollSpec /\ [][NextPoll]_vars

\* A _retry run and _poll runs of a constructed task.
NextLoops == NextRetry \/ NextPoll

SpecLoops == InitRetrySpec /\ [][NextLoops]_vars

\* freeze calls and a _retry run of a constructed task, in any order.
InitFreezeRetry ==
    /\ live = {"th1"}
    /\ InitCall
    /\ capture = FALSE
    /\ InitRetry
    /\ InitPoll
    /\ InitFreezeIdle

NextFreezeRetry == NextRetry \/ NextFreeze

SpecFreezeRetry == InitFreezeRetry /\ [][NextFreezeRetry]_vars

\* Two instances built from one task config, the first of which retries. The
\* task config carries the retry settings and a templated option; the first
\* instance may override retries.
OwnCfgs ==
    {Cfg(Update(RetryOptions(r, i, a),
                [k \in {"x"} |-> StrV(<<Ref("repo_name")>>)])) :
        r \in 0..MaxRetries, i \in 0..MaxInterval, a \in 0..MaxAdd}

InitOwnership ==
    /\ live = {"th1"}
    /\ InitCall
    /\ capture = FALSE
    /\ project_config = ProjectAttrs
    /\ task_options = <<>>
    /\ cfg_options \in OwnCfgs
    /\ kwargs \in {NoOptions, [k \in {"retries"} |-> IntV(2)]}
    /\ options = NoOptions
    /\ ctor_pc = "new"
    /\ ctor_error = <<>>
    /\ peer = NoPeer
    /\ InitRetryIdle
    /\ InitPoll
    /\ InitFreezeIdle

NextOwnership ==
    \/ Construct
    \/ ConstructPeer
    \/ NextRetry

SpecOwnership == InitOwnership /\ [][NextOwnership]_vars

\* A task is built from a task config with templated options, the project
\* configuration changes at any moment, and the task retries, polls and is
\* frozen.
TemplCfgs ==
    {Cfg(Update(RetryOptions(1, 1, 1), m)) :
        m \in {[k \in {"x", "y"} |->
                   IF k = "x" THEN StrV(<<Ref("repo_name")>>)
                   ELSE StrV(<<Ref("tmpl")>>)],
               [k \in {"x", "y"} |->
                   IF k = "x" THEN StrV(<<Lit("rel/"), Ref("repo_name"), Ref("nope")>>)
                   ELSE IntV(7)]}}

InitTemplating ==
    /\ live = {"th1"}
    /\ InitCall
    /\ capture = FALSE
    /\ project_config = ProjectAttrs
    /\ task_options = <<>>
    /\ cfg_options \in TemplCfgs
    /\ kwargs = NoOptions
    /\ options = NoOptions
    /\ ctor_pc = "new"
    /\ ctor_error = <<>>
    /\ peer = NoPeer
    /\ InitRetryIdle
    /\ InitPoll
    /\ InitFreezeIdle

NextTemplating ==
    \/ Construct
    \/ ChangeProjectConfig
    \/ NextRetry
    \/ NextPoll
    \/ NextFreeze

SpecTemplating == InitTemplating /\ [][NextTemplating]_vars

\* ===================================================== the task lifecycle

\* The frames of th that have pushed their task and not yet popped it.
OnStack == {"getcwd", "cd", "capture", "banner", "run", "body", "return",
            "uncapture", "restore", "pop"}

TasksOf(fs) == [i \in 1..Len(fs) |-> fs[i].task]
IsPushed(f) == f.pc \in OnStack
Steps(f) == {f.trace[i] : i \in 1..Len(f.trace)}

\* C1: when an invocation hands control back to its caller, by return or by
\* an exception raised at any point, the calling thread's task stack is what
\* it was when the invocation was entered (same depth, same tasks), at every
\* nesting depth.
C1_StackDepthRestored ==
    \A th \in live :
        At(th, "exit") =>
            /\ Depth(th) = Len(Cur(th).stack0)
            /\ stack[th] = Cur(th).stack0

\* C1 witness: a nested invocation whose body raised has pushed, popped and is
\* handing the exception back, one level above the empty stack.
C1_Witness ==
    \E th \in live :
        /\ At(th, "exit")
        /\ Len(frames[th]) = 2
        /\ Cur(th).exc = "BodyError"
        /\ {"push", "body", "pop"} \subseteq Steps(Cur(th))
        /\ Len(Cur(th).stack0) = 1

\* C2 as stated: at every point of an active invocation after its entry (the
\* hooks included) and before control is back at the caller, the top of the
\* thread's stack is the innermost active invocation's task.
C2_TopIsCurrentFromEntry ==
    \A th \in live :
        (Active(th) /\ Cur(th).pc \notin {"check", "exit"}) =>
            /\ hasStack[th]
            /\ stack[th] # <<>>
            /\ Top(stack[th]) = Cur(th).task

\* C2 amended: the thread's stack holds exactly the tasks of the invocations
\* that are between their push and their pop, outermost first; so from its
\* push to its pop the innermost invocation's task is the top, also after an
\* invocation made by its body returned or raised, and while an invocation is
\* in its precondition check or hooks its task is not on the stack.
C2_TopIsCurrentWhilePushed ==
    \A th \in live :
        /\ stack[th] = TasksOf(SelectSeq(frames[th], IsPushed))
        /\ (Active(th) /\ IsPushed(Cur(th))) =>
                (hasStack[th] /\ Top(stack[th]) = Cur(th).task)
        /\ (Active(th) /\ Cur(th).pc \in {"check", "creds", "init", "push"}) =>
                stack[th] = Cur(th).stack0

\* C2 witness: a body goes on after the invocation it made raised, and its own
\* task is the top again.
C2_Witness ==
    \E th \in live :
        /\ At(th, "body")
        /\ Cur(th).inner = "BodyError"
        /\ stack[th] = <<Cur(th).task>>

\* A task variant that requires an org and has none.
NeedsOrg(t) == salesforce_task(t) /\ ~org_config(t)

\* C9: invoking a task that requires an org without one fails with
\* TaskRequiresSalesforceOrg after the precondition check alone: no hook, no
\* push, no change of directory, no banner, no body, and the stack, the
\* working directory, result, return_values and working_path are as before.
C9_NoOrgNoSideEffect ==
    \A th \in live : \A i \in 1..Len(frames[th]) :
        LET f == frames[th][i] IN
        NeedsOrg(f.task) =>
            /\ f.pc \in {"check", "exit"}
            /\ f.pc = "exit" =>
                /\ f.exc = "TaskRequiresSalesforceOrg"
                /\ f.trace = <<"check">>
                /\ stack[th] = f.stack0
                /\ cwd = f.cwd0
                /\ result[f.task] = f.result0
                /\ return_values[f.task] = f.rv0
                /\ result[f.task] = None
                /\ return_values[f.task] = {}
                /\ working_path[f.task] = None

\* C9 witness: the failed invocation was made by a running body, with a task
\* on the stack and the directory changed by the caller.
C9_Witness ==
    \E th \in live :
        /\ At(th, "exit")
        /\ NeedsOrg(Cur(th).task)
        /\ Cur(th).exc = "TaskRequiresSalesforceOrg"
        /\ Len(frames[th]) = 2
        /\ cwd = "repo"

\* ============================================================ the retry loop

Count(log, ev) == Cardinality({i \in DOMAIN log : log[i].ev = ev})
IsSleep(e) == e.ev = "sleep"
IsAttempt(e) == e.ev \in {"try_ok", "try_fail"}

\* The settings _retry started with.
N0 == opt0["retries"].n
I0 == opt0["retry_interval"].n
A0 == opt0["retry_interval_add"].n

Fails == Count(rlog, "try_fail")
Rejected == \E i \in DOMAIN rlog : rlog[i].ev = "is_retry_valid" /\ rlog[i].n = 0

\* The place in rlog of the last failed attempt.
LastFail == CHOOSE i \in DOMAIN rlog :
                /\ rlog[i].ev = "try_fail"
                /\ \A k \in DOMAIN rlog : k > i => rlog[k].ev # "try_fail"

\* C3: with retries = N and every error accepted, the error propagates after
\* exactly N+1 failed attempts and leaves retries at 0; each failed attempt
\* that is retried takes exactly 1 off retries, so that the attempt after k
\* failures runs with retries = N - k.
C3_AlwaysFailingRunsNPlusOne ==
    retry_pc # "idle" =>
        /\ Fails <= N0 + 1
        /\ retry_pc = "try" => options["retries"].n = N0 - Fails
        /\ retry_pc \in {"except", "backoff", "decrement"} =>
                options["retries"].n = N0 - (Fails - 1)
        /\ (retry_pc = "raised" /\ ~Rejected) =>
                /\ Fails = N0 + 1
                /\ options["retries"].n = 0

\* C3 witness: retries = 3, four failed attempts, all accepted, the error out.
C3_Witness ==
    /\ retry_pc = "raised"
    /\ ~Rejected
    /\ N0 = 3
    /\ Fails = 4
    /\ Count(rlog, "warning_retrying") = 3

\* C4: a step that fails k <= N times and then succeeds makes _retry return
\* with retries = N - k; with every error accepted no error propagates before
\* the step has failed more than N times.
C4_FailsThenSucceeds ==
    retry_pc # "idle" =>
        /\ retry_pc = "returned" =>
                /\ Fails <= N0
                /\ options["retries"].n = N0 - Fails
                /\ rlog[Len(rlog)].ev = "try_ok"
        /\ Count(rlog, "try_ok") > 0 => retry_pc = "returned"
        /\ (retry_pc = "raised" /\ ~Rejected) => Fails > N0

\* C4 witness: the spec's scenario, retries = 3, two failures, then success.
C4_Witness ==
    /\ retry_pc = "returned"
    /\ N0 = 3
    /\ Fails = 2
    /\ options["retries"].n = 1

\* C5: the j-th sleep of a _retry run lasts I + (j-1)*A; every sleep comes
\* after a failed attempt with no other attempt or sleep in between, and with
\* a truthy I there is exactly one sleep between two successive attempts.
C5_BackoffSleeps ==
    retry_pc # "idle" =>
        LET sleeps == SelectSeq(rlog, IsSleep) IN
        /\ \A j \in DOMAIN sleeps : sleeps[j].n = I0 + (j - 1) * A0
        /\ \A i \in DOMAIN rlog : rlog[i].ev = "sleep" =>
              \E j \in 1..(i - 1) :
                  /\ rlog[j].ev = "try_fail"
                  /\ \A k \in (j + 1)..(i - 1) :
                        ~IsAttempt(rlog[k]) /\ ~IsSleep(rlog[k])
        /\ I0 > 0 =>
              /\ Len(sleeps) = Count(rlog, "warning_retrying")
                               + (IF retry_pc = "decrement" THEN 1 ELSE 0)
              /\ \A i \in DOMAIN rlog : (IsAttempt(rlog[i]) /\ i > 1) =>
                    \E j \in 1..(i - 1) :
                        /\ rlog[j].ev = "sleep"
                        /\ \A k \in (j + 1)..(i - 1) : ~IsAttempt(rlog[k])

\* C5 witness: I = 1, A = 2 and three sleeps, of 1, 3 and 5 seconds.
C5_Witness ==
    /\ retry_pc # "idle"
    /\ I0 = 1
    /\ A0 = 2
    /\ SelectSeq(rlog, IsSleep) =
          <<Event("sleep", 1, 0), Event("sleep", 3, 0), Event("sleep", 5, 0)>>

\* C6: a failed attempt is retried only when retries is truthy and the
\* predicate accepts the error; otherwise the error is re-raised at once:
\* nothing but the predicate's call follows the failed attempt (no attempt, no
\* sleep, no warning) and retries and retry_interval are what that attempt
\* found.
C6_RaiseImmediately ==
    /\ retry_pc \in {"backoff", "decrement"} =>
          /\ rlog[LastFail].n # 0
          /\ \E k \in DOMAIN rlog :
                k > LastFail /\ rlog[k] = Event("is_retry_valid", 1, 0)
    /\ retry_pc = "raised" =>
          /\ \/ rlog[LastFail].n = 0
             \/ rlog[Len(rlog)] = Event("is_retry_valid", 0, 0)
          /\ \A k \in DOMAIN rlog : k > LastFail =>
                (k = LastFail + 1 /\ rlog[k].ev = "is_retry_valid")
          /\ options["retries"].n = rlog[LastFail].n
          /\ options["retry_interval"].n = rlog[LastFail].m

\* C6 witness: the second failure is rejected by the predicate with retries
\* and retry_interval both still truthy.
C6_Witness ==
    /\ retry_pc = "raised"
    /\ Rejected
    /\ Fails = 2
    /\ options["retries"].n > 0
    /\ options["retry_interval"].n > 0

\* ============================================================= the poll loop

IsProbe(e) == e.ev \in {"pending", "complete", "raise"}
FirstRun(e) == e.m = 1

\* C7: in the first _poll after construction the sleep that follows the n-th
\* probe lasts ceil(n / 3) seconds.
C7_StaircaseSleeps ==
    \A i \in DOMAIN plog : (plog[i].ev = "sleep" /\ FirstRun(plog[i])) =>
        /\ i > 1
        /\ plog[i - 1].ev = "pending"
        /\ plog[i].n = (plog[i - 1].n + 2) \div 3
        /\ plog[i - 1].n = Cardinality({k \in 1..(i - 1) : IsProbe(plog[k])})

\* C7 witness: the sleep after the 7th probe lasts 3 seconds.
C7_Witness ==
    \E i \in DOMAIN plog :
        /\ i > 1
        /\ plog[i] = Event("sleep", 3, 1)
        /\ plog[i - 1] = Event("pending", 7, 1)

\* C8: _poll returns only with poll_complete set, and when the probe first
\* sets it on its k-th call the first _poll has called the probe exactly k
\* times: every earlier probe was followed by another one, and nothing (no
\* sleep, no probe) follows the one that completed.
C8_CompletionIsTheOnlyExit ==
    /\ poll_pc = "returned" => poll_complete
    /\ (poll_pc = "returned" /\ poll_run = 1) =>
          LET probes == SelectSeq(plog, IsProbe) IN
          /\ Len(probes) = poll_count
          /\ probes[Len(probes)].ev = "complete"
          /\ \A j \in 1..(Len(probes) - 1) : probes[j].ev = "pending"
          /\ \A j \in DOMAIN probes : probes[j].n = j
    /\ \A i \in DOMAIN plog : (plog[i].ev = "complete" /\ FirstRun(plog[i])) =>
          \A k \in DOMAIN plog : k > i => ~FirstRun(plog[k])

\* C8 witness: the probe completes on its 8th call and _poll returns.
C8_Witness ==
    /\ poll_pc = "returned"
    /\ poll_run = 1
    /\ poll_count = 8

\* ============================================================== construction

\* The keys of the merged options, from the inputs of __init__.
MergedKeys ==
    (IF cfg_options.is_none THEN {} ELSE DOMAIN cfg_options.map) \cup DOMAIN kwargs

\* The places of the schema whose option is required and absent.
MissingAt ==
    {i \in DOMAIN task_options :
        task_options[i].required = "True" /\ task_options[i].name \notin MergedKeys}

SchemaIndex(opt) == CHOOSE i \in DOMAIN task_options : task_options[i].name = opt

\* C10: __init__ raises TaskOptionsError exactly when a required option is
\* absent from the merged options; the error lists every such option once, in
\* the schema's declaration order; otherwise construction succeeds.
C10_MissingRequiredOptions ==
    ctor_pc # "new" =>
        /\ ctor_pc = "error" <=> MissingAt # {}
        /\ ctor_pc = "ok" <=> MissingAt = {}
        /\ {ctor_error[i] : i \in DOMAIN ctor_error} =
              {task_options[i].name : i \in MissingAt}
        /\ Len(ctor_error) = Cardinality(MissingAt)
        /\ \A i, j \in DOMAIN ctor_error :
              i < j => SchemaIndex(ctor_error[i]) < SchemaIndex(ctor_error[j])
        /\ DOMAIN options = MergedKeys

\* C10 witness: two required options are missing, a third key is present, and
\* the error lists both.
C10_Witness ==
    /\ ctor_pc = "error"
    /\ Len(ctor_error) = 2
    /\ MergedKeys # {}


\* ------------------------------------------------------------------- C11

\* The value __init__ was given for option k: the keyword override if there is
\* one, otherwise the task configuration's.
Supplied(k) == IF k \in DOMAIN kwargs THEN kwargs[k] ELSE cfg_options.map[k]

\* What one token of a supplied string stands for after templating.
Piece(tok) ==
    IF tok.t # "ref" THEN <<tok>>
    ELSE IF tok.s \notin DOMAIN project_config THEN <<Lit("None")>>
    ELSE IF project_config[tok.s].kind = "int"
         THEN <<Num(project_config[tok.s].n)>>
         ELSE project_config[tok.s].toks

RECURSIVE Offset(_, _)
\* Where the piece of token i starts in the templated string.
Offset(toks, i) ==
    IF i = 1 THEN 1 ELSE Offset(toks, i - 1) + Len(Piece(toks[i - 1]))

\* out is toks with each token replaced, in place, by its piece.
IsTemplateOf(out, toks) ==
    /\ Len(out) = Offset(toks, Len(toks) + 1) - 1
    /\ \A i \in 1..Len(toks) :
         \A j \in 1..Len(Piece(toks[i])) :
            out[Offset(toks, i) + j - 1] = Piece(toks[i])[j]

\* C11: after construction (whether or not validation then failed) the options
\* are exactly the supplied ones, a string value has every occurrence of
\* $project_config.<attr> replaced by the string form of that attribute, "None"
\* for a missing attribute, and a non-string value is the value supplied;
\* construction fails only for missing required options.
C11_OptionsAreTemplated ==
    ctor_pc \in {"ok", "error"} =>
        /\ DOMAIN options = MergedKeys
        /\ \A k \in DOMAIN options :
             IF Supplied(k).kind = "str"
             THEN /\ options[k].kind = "str"
                  /\ IsTemplateOf(options[k].toks, Supplied(k).toks)
             ELSE options[k] = Supplied(k)
        /\ (ctor_pc = "error") = (ctor_error # <<>>)

\* Construction succeeded with an integer option, a string option whose
\* missing attribute became "None", and an overriding keyword option holding
\* the decimal text of an integer attribute.
C11_Witness ==
    /\ ctor_pc = "ok"
    /\ \E k1, k2, k3 \in DOMAIN options :
         /\ Supplied(k1) = IntV(7) /\ options[k1] = IntV(7)
         /\ Supplied(k2) = StrV(<<Lit("rel/"), Ref("repo_name"), Ref("nope")>>)
         /\ options[k2] = StrV(<<Lit("rel/"), Lit("CumulusCI"), Lit("None")>>)
         /\ k3 \in DOMAIN kwargs /\ ~cfg_options.is_none
         /\ k3 \in DOMAIN cfg_options.map
         /\ options[k3] = StrV(<<Num(50)>>)

\* ------------------------------------------------------------------- C12

\* C12: when an invocation is left, by return or by an error, the working
\* directory is the one the invocation was entered with, whatever the body did
\* and with or without a repository root.
C12_WorkingDirectoryRestored ==
    \A th \in live : At(th, "exit") => cwd = Cur(th).cwd0

\* An invocation without repository root, whose body changed the directory
\* and then failed, is left.
C12_Witness ==
    \E th \in live :
        /\ At(th, "exit")
        /\ Cur(th).moved
        /\ "restore" \in Steps(Cur(th))
        /\ Cur(th).path = None
        /\ Cur(th).exc = "BodyError"

\* ------------------------------------------------------------------- C13

\* The steps of __call__ in the order of its statements, and the steps of
\* leaving its scopes.
Lifecycle ==
    <<"check", "creds", "init", "push", "getcwd", "cd", "capture", "banner",
      "body", "store", "return">>
Unwind == <<"uncapture", "restore", "pop">>

\* The steps f has taken are the first n of the lifecycle followed by the
\* first m of the unwinding.
TookSteps(f, n, m) ==
    f.trace = SubSeq(Lifecycle, 1, n) \o SubSeq(Unwind, 1, m)

\* The number of lifecycle steps an invocation at pc has behind it ("exit" and
\* the unwinding positions are reached from several steps).
Behind(pc) ==
    CASE pc = "check" -> {0}
      [] pc = "creds" -> {1}
      [] pc = "init" -> {2}
      [] pc = "push" -> {3}
      [] pc = "getcwd" -> {4}
      [] pc = "cd" -> {5}
      [] pc = "capture" -> {6}
      [] pc = "banner" -> {7}
      [] pc = "run" -> {8}
      [] pc = "body" -> {9}
      [] pc = "return" -> {10}
      [] pc \in {"uncapture", "restore", "pop"} -> {8, 9, 11}
      [] OTHER -> {1, 2, 3, 8, 9, 11}

\* C13: the steps any invocation has taken are an initial part of the
\* lifecycle order (precondition, credential hook, initialization hook, push,
\* directory scoping, capture scoping, banner, body, storing the result,
\* returning return_values), each once, a step being taken only when all the
\* earlier ones are behind; the scopes are left only afterwards.
C13_LifecycleOrder ==
    \A th \in live : \A i \in 1..Len(frames[th]) :
        LET f == frames[th][i]
        IN  \E n \in Behind(f.pc), m \in 0..Len(Unwind) :
                /\ TookSteps(f, n, m)
                /\ (m > 0) => f.pc \in {"restore", "pop", "exit"}

\* An invocation that went through the whole lifecycle and left its scopes.
C13_Witness ==
    \E th \in live :
        /\ At(th, "exit")
        /\ Cur(th).exc = None
        /\ TookSteps(Cur(th), Len(Lifecycle), Len(Unwind))

\* ------------------------------------------------------------------- C14

\* C14: the error in flight in an invocation is the error as it was raised,
\* never another one and never none; an invocation that is left with an error
\* has not stored a result, has popped the stack if it pushed and has left
\* cd() if it entered it, the stack and the directory being the caller's; and
\* as long as the invocation is not left its caller is still in its body with
\* no error.
C14_ErrorsPropagateAfterCleanup ==
    \A th \in live :
        /\ \A i \in 1..Len(frames[th]) :
             LET f == frames[th][i]
             IN  /\ f.exc = f.raised
                 /\ i < Len(frames[th]) => f.pc = "body" /\ f.exc = None
        /\ (At(th, "exit") /\ Cur(th).raised # None) =>
             LET f == Cur(th)
             IN  /\ "store" \notin Steps(f)
                 /\ "push" \in Steps(f) => "pop" \in Steps(f)
                 /\ "cd" \in Steps(f) => "restore" \in Steps(f)
                 /\ stack[th] = f.stack0
                 /\ cwd = f.cwd0

\* An invocation made by a body is left with the error its banner raised,
\* after the pop and the restoration, its caller still waiting.
C14_Witness ==
    \E th \in live :
        /\ At(th, "exit")
        /\ Len(frames[th]) = 2
        /\ Cur(th).raised = "LogError"
        /\ Cur(th).exc = "LogError"
        /\ Cur(th).path = "repo"
        /\ {"pop", "restore"} \subseteq Steps(Cur(th))

\* ------------------------------------------------------------------- C15

\* A step leaves alone the stack of every thread that did not take it.
OtherStacksUntouched ==
    \A th \in Threads :
        frames'[th] = frames[th] =>
            stack'[th] = stack[th] /\ hasStack'[th] = hasStack[th]

\* C15: under any interleaving of two threads, each thread's stack holds the
\* tasks of that thread's own invocations between their push and their pop and
\* nothing else, a thread that has not pushed yet has no stack (its first push
\* starts from the empty one), and a step of one thread changes neither the
\* stack nor its existence on the other.
C15_StackIsolatedPerThread ==
    /\ [](\A th \in Threads :
            /\ stack[th] = TasksOf(SelectSeq(frames[th], IsPushed))
            /\ ~hasStack[th] => stack[th] = <<>>)
    /\ [][OtherStacksUntouched]_vars

\* Both threads are in a body, each with its own, different task as its whole
\* stack.
C15_Witness ==
    /\ At("th1", "body") /\ At("th2", "body")
    /\ stack["th1"] = <<"plain">>
    /\ stack["th2"] = <<"sf">>

\* ------------------------------------------------------------------- C16

\* The text form of the step numbers of StepSpecs.
StepNumText(v) ==
    CASE v = NumberV(1) -> "1"
      [] v = NumberV(12) -> "12"
      [] OTHER -> v.s

\* The ui_options of the task configuration, empty when it has none.
UiGiven == task_config.ui_options.map

\* r[k] is the ui_options' value for k if they have one, and otherwise v.
Overridable(r, k, v) == r[k] = IF k \in DOMAIN UiGiven THEN UiGiven[k] ELSE v

\* C16: every freeze call returned a list of exactly one record; its path,
\* step_num (as text), task_class, task_config ({options: the resolved
\* options, checks: the declared checks or the empty list}) and source are
\* those of the step and the task whatever the ui_options hold under these
\* keys; its name (the task config's, else the task's), kind ("other") and
\* is_required (true) give way to the ui_options, whose other keys are kept.
C16_FreezeRecord ==
    \A i \in 1..Len(frozen) :
        LET step == frozen[i].step
            ret == frozen[i].ret
            r == ret[1]
        IN  /\ Len(ret) = 1
            /\ DOMAIN r = {"name", "kind", "is_required", "path", "step_num",
                           "task_class", "task_config", "source"}
                              \cup DOMAIN UiGiven
            /\ r["path"] = TextV(step.path)
            /\ r["step_num"] = TextV(StepNumText(step.step_num))
            /\ r["task_class"] = TextV(task_config.class_path)
            /\ r["task_config"].kind = "dict"
            /\ r["task_config"].opts = options
            /\ r["task_config"].checks =
                  (IF task_config.checks.is_none THEN <<>>
                   ELSE task_config.checks.list)
            /\ r["source"] = TextV(step.frozenspec)
            /\ Overridable(r, "name",
                  IF task_config.name # None THEN TextV(task_config.name)
                  ELSE IF name # None THEN TextV(name) ELSE NoneV)
            /\ Overridable(r, "kind", TextV("other"))
            /\ Overridable(r, "is_required", BoolV(TRUE))
            /\ \A k \in DOMAIN UiGiven \cap {"note"} : r[k] = UiGiven[k]

\* freeze was called, with the number 12 as step number, on a task with
\* templated options and declared checks whose ui_options hold every key.
C16_Witness ==
    \E i \in 1..Len(frozen) :
        /\ DOMAIN UiGiven = UiKeys
        /\ frozen[i].step.step_num = NumberV(12)
        /\ frozen[i].ret[1]["step_num"] = TextV("12")
        /\ frozen[i].ret[1]["path"] = TextV("force_deploy")
        /\ frozen[i].ret[1]["kind"] = TextV("from ui_options")
        /\ frozen[i].ret[1]["task_config"].checks = <<"check_a">>
        /\ frozen[i].ret[1]["task_config"].opts =
              [k \in {"x"} |-> StrV(<<Lit("rel/"), Lit("CumulusCI"), Lit("None")>>)]

\* ------------------------------------------------------------------- C17

\* How often f took step.
Times(f, step) == Cardinality({i \in 1..Len(f.trace) : f.trace[i] = step})

\* C17: no invocation enters the task body more than once; an invocation that
\* returns has entered it exactly once, has stored its value once, and hands
\* back the mapping of its own task as it is at that moment: what was there at
\* entry and what the body put there (and nothing else, unless the body
\* invoked other tasks).
C17_BodyOnceReturnsReturnValues ==
    \A th \in live :
        /\ \A i \in 1..Len(frames[th]) : Times(frames[th][i], "body") <= 1
        /\ (At(th, "exit") /\ Cur(th).exc = None) =>
             LET f == Cur(th)
             IN  /\ Times(f, "body") = 1
                 /\ Times(f, "store") = 1
                 /\ Times(f, "return") = 1
                 /\ f.ret = return_values[f.task]
                 /\ f.rv0 \cup f.put \subseteq f.ret
                 /\ f.inner = None => f.ret = f.rv0 \cup f.put

\* The first invocation of a task, whose body put a key, returns the mapping
\* with that key.
C17_Witness ==
    \E th \in live :
        /\ At(th, "exit")
        /\ Cur(th).exc = None
        /\ Cur(th).rv0 = {}
        /\ Cur(th).put = {"k"}
        /\ Cur(th).ret = {"k"}

\* ------------------------------------------------------------------- C18

\* The entries of the histories that are warning-level log records.
IsWarning(e) == e.ev \in {"warning_sleeping", "warning_retrying"}

\* _retry is done with the failed attempt at place i of rlog: the error left
\* the loop or the next attempt began.
Handled(i) ==
    \/ retry_pc = "raised"
    \/ \E j \in DOMAIN rlog : j > i /\ IsAttempt(rlog[j])

\* Between place i of rlog and the next attempt (or the end) there is a
\* warning.
WarnedAfter(i) ==
    \E k \in DOMAIN rlog :
        /\ k > i
        /\ IsWarning(rlog[k])
        /\ \A j \in (i + 1)..k : ~IsAttempt(rlog[j])

\* C18 as stated: every failed attempt _retry is done with, the one whose
\* error propagates included, is followed by a warning, and so is a failed
\* probe of _poll.
C18_EveryFailureLogged ==
    /\ \A i \in DOMAIN rlog :
          (rlog[i].ev = "try_fail" /\ Handled(i)) => WarnedAfter(i)
    /\ poll_pc = "raised" => IsWarning(plog[Len(plog)])

\* C18, amended: a failed attempt that _retry retries is followed, before the
\* next attempt, by the warning that tells the attempts remaining (and, with a
\* truthy retry_interval, before it by the warning that tells the sleep); a
\* failed attempt whose error propagates is followed by no log record, the
\* error leaving the loop at once; _poll logs no warning at all and a failing
\* probe ends it at once.
C18_RetriedFailuresLogged ==
    /\ \A i \in DOMAIN rlog :
          (rlog[i].ev = "try_fail"
             /\ \E j \in DOMAIN rlog : j > i /\ IsAttempt(rlog[j])) =>
                /\ WarnedAfter(i)
                /\ \E k \in DOMAIN rlog :
                      /\ k > i
                      /\ rlog[k].ev = "warning_retrying"
                      /\ \A j \in (i + 1)..k : ~IsAttempt(rlog[j])
                      /\ rlog[i].m # 0 =>
                            \E s \in (i + 1)..(k - 1) :
                                rlog[s].ev = "warning_sleeping"
    /\ retry_pc = "raised" =>
          \A k \in DOMAIN rlog : k > LastFail => ~IsWarning(rlog[k])
    /\ \A i \in DOMAIN plog : ~IsWarning(plog[i])
    /\ poll_pc = "raised" => plog[Len(plog)].ev = "raise"

\* _retry has retried one failed attempt after a sleep and let the error of a
\* second one propagate, and a probe of _poll has raised.
C18_Witness ==
    /\ retry_pc = "raised"
    /\ Fails = 2
    /\ Count(rlog, "warning_retrying") = 1
    /\ Count(rlog, "warning_sleeping") = 1
    /\ poll_pc = "raised"
    /\ plog[Len(plog)].ev = "raise"

\* ------------------------------------------------------------------- C19

\* A failing invocation whose body invoked nothing leaves the result alone.
FailureKeepsResult ==
    \A th \in live :
        (At(th, "exit") /\ Cur(th).exc # None) =>
            /\ Cur(th).val = None
            /\ Cur(th).inner = None => result[Cur(th).task] = Cur(th).result0

\* C19 as stated: the result is None before any invocation, a failing
\* invocation leaves it alone, and a result that an invocation found set is
\* the same when the invocation is left.
C19_ResultSetOnce ==
    /\ ncalls = 0 => \A t \in Tasks : result[t] = None
    /\ FailureKeepsResult
    /\ \A th \in live :
          (At(th, "exit") /\ Cur(th).result0 # None) =>
              result[Cur(th).task] = Cur(th).result0

\* The step changes the result of t only by storing what the body of an
\* invocation of t returns.
ResultChangesByStore ==
    \A t \in Tasks :
        result'[t] # result[t] =>
            \E th \in live :
                /\ At(th, "body")
                /\ Cur(th).task = t
                /\ Len(frames'[th]) = Len(frames[th])
                /\ Top(frames'[th]).pc = "return"
                /\ Top(frames'[th]).val = result'[t]

\* C19, amended: the result is None before any invocation; every invocation
\* whose body completes normally sets it to that body's return value, also
\* when an earlier invocation had set it; nothing else changes it, and a
\* failing invocation has stored nothing.
C19_ResultSetByEachCompletion ==
    /\ [](/\ ncalls = 0 => \A t \in Tasks : result[t] = None
          /\ FailureKeepsResult
          /\ \A th \in live :
                At(th, "return") =>
                    /\ Cur(th).val \in BodyResults
                    /\ result[Cur(th).task] = Cur(th).val)
    /\ [][ResultChangesByStore]_vars

\* A second invocation of a task returns, and the result the first one had
\* set is replaced by another value.
C19_Witness ==
    \E th \in live :
        /\ At(th, "exit")
        /\ Cur(th).exc = None
        /\ Cur(th).result0 = "rc0"
        /\ Cur(th).val = "rc1"
        /\ result[Cur(th).task] = "rc1"

\* ------------------------------------------------------------------- C20

\* The step removes no entry from any task's return_values.
ReturnValuesKept == \A t \in Tasks : return_values[t] \subseteq return_values'[t]

\* C20: return_values is empty before the first invocation and no step of an
\* invocation removes an entry from it: what an invocation found there at its
\* start is there at every later moment of it, also when it fails, and is in
\* the value it returns.
C20_ReturnValuesNeverReset ==
    /\ [](/\ ncalls = 0 => \A t \in Tasks : return_values[t] = {}
          /\ \A th \in live : \A i \in 1..Len(frames[th]) :
                LET f == frames[th][i]
                IN  /\ f.rv0 \subseteq return_values[f.task]
                    /\ "return" \in Steps(f) => f.rv0 \subseteq f.ret)
    /\ [][ReturnValuesKept]_vars

\* A later invocation, whose body put nothing, returns the entry an earlier
\* invocation's body had put.
C20_Witness ==
    \E th \in live :
        /\ At(th, "exit")
        /\ Len(frames[th]) = 1
        /\ Cur(th).exc = None
        /\ Cur(th).rv0 = {"k"}
        /\ Cur(th).put = {}
        /\ Cur(th).inner = None
        /\ Cur(th).ret = {"k"}

\* ------------------------------------------------------------------- C21

\* C21: no step changes a step record that freeze has returned: not a later
\* freeze call and not a step of _retry, which takes one off
\* options["retries"] and adds to options["retry_interval"].
C21_FrozenRecordsNeverChange ==
    [][\A i \in 1..Len(frozen) : frozen'[i] = frozen[i]]_vars

\* ------------------------------------------------------------------- C22

RetryKeys == {"retries", "retry_interval", "retry_interval_add"}

\* C22: no step changes the task config's options: they keep their
\* untemplated text and their retry settings through construction and
\* retrying; a second instance built from the task config, before, during or
\* after the first one's retries, has the task config's retry settings and
\* keeps them whatever the first one does to its own.
C22_OptionsOwnedByInstance ==
    /\ [](/\ cfg_options.map["x"] = StrV(<<Ref("repo_name")>>)
          /\ peer.built =>
                /\ \A k \in RetryKeys : peer.options[k] = cfg_options.map[k]
                /\ peer.options["x"] = StrV(<<Lit("CumulusCI")>>))
    /\ [][cfg_options' = cfg_options]_vars

\* The first instance has used up attempts and slept, and its retries and
\* retry_interval differ from those of the task config and of the second
\* instance.
C22_Witness ==
    /\ peer.built
    /\ kwargs = NoOptions
    /\ retry_pc = "raised"
    /\ options["retries"].n = 0
    /\ peer.options["retries"].n = 2
    /\ cfg_options.map["retries"].n = 2
    /\ options["retry_interval"].n > peer.options["retry_interval"].n
    /\ options["x"] = StrV(<<Lit("CumulusCI")>>)

\* ------------------------------------------------------------------- C23

\* The step that constructs the task leaves in every string option the
\* supplied text with each reference replaced once, by the attribute's text
\* as the project configuration has it at that moment.
TemplatedAtConstruction ==
    (ctor_pc = "new" /\ ctor_pc' # "new") =>
        \A k \in DOMAIN options' :
            Supplied(k).kind = "str" =>
                IsTemplateOf(options'[k].toks, Supplied(k).toks)

\* A step of a constructed task adds and removes no option and changes no
\* string option.
StringOptionsKept ==
    ctor_pc # "new" =>
        /\ DOMAIN options' = DOMAIN options
        /\ \A k \in DOMAIN options :
              options[k].kind = "str" => options'[k] = options[k]

EndsWith(f, steps) ==
    /\ Len(f.trace) >= Len(steps)
    /\ SubSeq(f.trace, Len(f.trace) - Len(steps) + 1, Len(f.trace)) = steps

\* The task of the innermost invocation of th is on top of the stack, one
\* above the stack the invocation was entered with.
StillOnStack(th) ==
    /\ hasStack[th]
    /\ stack[th] = Append(Cur(th).stack0, Cur(th).task)

\* C24: an invocation that entered its scopes leaves them innermost first on
\* every path: while the capture scope is being left nothing else is released;
\* while the directory is being restored the capture is already off and the
\* task is still on the stack; the pop comes last, with the directory already
\* the remembered one; and an invocation that pushed is left with exactly the
\* steps uncapture, restore, pop behind it.
C24_ReleasedInnermostFirst ==
    \A th \in live :
        Active(th) =>
            LET f == Cur(th)
            IN  /\ f.pc = "uncapture" =>
                      /\ StillOnStack(th)
                      /\ f.scoped = capture
                      /\ Steps(f) \cap {"uncapture", "restore", "pop"} = {}
                /\ f.pc = "restore" =>
                      /\ StillOnStack(th)
                      /\ ~f.scoped
                      /\ EndsWith(f, <<"uncapture">>)
                      /\ Steps(f) \cap {"restore", "pop"} = {}
                /\ f.pc = "pop" =>
                      /\ StillOnStack(th)
                      /\ cwd = f.saved
                      /\ EndsWith(f, <<"uncapture", "restore">>)
                      /\ "pop" \notin Steps(f)
                /\ (f.pc = "exit" /\ "push" \in Steps(f)) =>
                      /\ EndsWith(f, <<"uncapture", "restore", "pop">>)
                      /\ stack[th] = f.stack0

\* The directory of an invocation whose body raised, with output capture on
\* and a repository root, is being restored: the capture is off and the task
\* is on the stack.
C24_Witness ==
    \E th \in live :
        /\ At(th, "restore")
        /\ capture
        /\ Cur(th).exc = "BodyError"
        /\ Cur(th).path = "repo"
        /\ ~Cur(th).scoped
        /\ Top(stack[th]) = Cur(th).task

\* ------------------------------------------------------------------- C25

\* The four poll-state fields.
PollState ==
    <<poll_complete, poll_count, poll_interval_level, poll_interval_s>>

\* A step that changes a poll-state field is a step inside a _poll loop, or
\* the construction, which leaves the reset values.
PollStateChangesInLoop ==
    PollState' # PollState =>
        \/ poll_pc \in {"count", "action", "update"}
        \/ ctor_pc = "new" /\ PollState' = <<FALSE, 0, 0, 1>>

\* C25: a constructed task that has not polled has the poll state
\* (false, 0, 0, 1); only steps inside a _poll loop change it afterwards, not
\* the steps of _retry or freeze and not the call of _poll itself, so that a
\* second _poll goes on from what the first one left.
C25_PollStateOnlyInLoop ==
    /\ []((ctor_pc # "new" /\ poll_run = 0) => PollState = <<FALSE, 0, 0, 1>>)
    /\ [][PollStateChangesInLoop]_vars

\* The second _poll has just been called, after a retry and a freeze, and the
\* poll state is what the first left: completed at the fourth probe, level 1,
\* interval 2.
C25_Witness ==
    /\ poll_run = 2
    /\ poll_pc = "count"
    /\ PollState = <<TRUE, 4, 1, 2>>
    /\ retry_pc = "raised"
    /\ Len(frozen) = 1

\* ------------------------------------------------------------------- C26

\* The attempts _retry has made so far.
Attempts == Count(rlog, "try_ok") + Count(rlog, "try_fail")

\* retries goes down only by one, and only from a positive value.
DecrementsWhenPositive ==
    options'["retries"] # options["retries"] =>
        /\ options["retries"].n > 0
        /\ options'["retries"].n = options["retries"].n - 1

\* C26: started with a natural number of retries, _retry makes at most
\* retries + 1 attempts, retries is never negative and is lowered only from a
\* positive value, and every _retry that was called returns or raises,
\* whatever _try and the predicate do.
C26_RetryTerminates ==
    /\ [](retry_pc # "idle" => Attempts <= N0 + 1)
    /\ [](options["retries"].n >= 0)
    /\ [][DecrementsWhenPositive]_vars
    /\ (retry_pc = "try" ~> retry_pc \in {"returned", "raised"})

\* Every attempt failed and every failure was accepted: the last of
\* MaxRetries + 1 attempts found retries at 0 and the error went out.
C26_Witness ==
    /\ retry_pc = "raised"
    /\ N0 = MaxRetries
    /\ Attempts = MaxRetries + 1
    /\ options["retries"].n = 0
    /\ ~Rejected

\* ------------------------------------------------------------------- C27

\* The sleeps of the first _poll.
FirstRunSleeps ==
    Cardinality({i \in DOMAIN plog : plog[i].ev = "sleep" /\ FirstRun(plog[i])})

\* No step raises the level by more than one or lowers the interval.
LevelAndIntervalStep ==
    /\ poll_interval_level' \in {poll_interval_level, poll_interval_level + 1}
    /\ poll_interval_s' >= poll_interval_s

\* C27: in the first _poll after construction, with a probe that only sets
\* the completion flag, every loop iteration starts with the interval one
\* above the level and the level at poll_count div 3; the level goes up by at
\* most one at a time, the interval never goes down, and a _poll that returns
\* has slept poll_count - 1 times.
C27_PollLoopInvariant ==
    /\ []((poll_run = 1 /\ poll_pc = "count") =>
            /\ poll_interval_s = poll_interval_level + 1
            /\ poll_interval_level = poll_count \div 3)
    /\ []((poll_run = 1 /\ poll_pc = "returned") =>
            FirstRunSleeps = poll_count - 1)
    /\ [][LevelAndIntervalStep]_vars

\* The first _poll returned at its seventh probe, with the level at 2 and the
\* interval at 3 seconds, after six sleeps.
C27_Witness ==
    /\ poll_run = 1
    /\ poll_pc = "returned"
    /\ poll_count = 7
    /\ poll_interval_level = 2
    /\ poll_interval_s = 3
    /\ FirstRunSleeps = 6

\* ------------------------------------------------------------------- C28

\* The errors of the two hooks __call__ runs before it pushes the task.
HookErrors == {"CredentialsError", "InitError"}

\* The invocation f failed in one of its own hooks (and not by an error that
\* came up from an invocation its body made).
HookFailed(f) == f.raised \in HookErrors /\ f.inner # f.raised

\* C28: an invocation whose credential hook or initialization hook raised is
\* left with that error, having taken no step after the failing hook: no
\* push, no change of directory, no banner, no body; the stack, the working
\* directory, result and return_values are as on entry, and after a failed
\* credential hook the initialization hook was not called.
C28_HookErrorBeforeAnyEffect ==
    \A th \in live :
        (Active(th) /\ HookFailed(Cur(th))) =>
            LET f == Cur(th)
            IN  /\ f.pc = "exit"
                /\ f.exc = f.raised
                /\ f.trace = IF f.raised = "CredentialsError"
                             THEN <<"check", "creds">>
                             ELSE <<"check", "creds", "init">>
                /\ stack[th] = f.stack0
                /\ cwd = f.cwd0
                /\ result[f.task] = f.result0
                /\ return_values[f.task] = f.rv0
                /\ f.val = None
                /\ ~f.moved
                /\ f.put = {}

\* The second invocation of a task whose first invocation stored a result
\* failed in its initialization hook, and result is still what the first left.
C28_Witness ==
    \E th \in live :
        /\ At(th, "exit")
        /\ Cur(th).raised = "InitError"
        /\ Cur(th).exc = "InitError"
        /\ Cur(th).result0 # None
        /\ result[Cur(th).task] = Cur(th).result0
        /\ stack[th] = <<>>

====
